---- MODULE Spec2Model ----
(***************************************************************************)
(* A model of src/notamify_server.py:                                      *)
(*   - NotamQueryParams validation and NotamifyMCPClient.get_notams, the   *)
(*     paginated fetch loop (specifications Spec and SpecQuery);           *)
(*   - get_affected_elements, the extraction, sorting and rendering of     *)
(*     affected elements (specification SpecSummary).                      *)
(***************************************************************************)
EXTENDS Integers, Sequences, FiniteSets, TLC

VARIABLES
    \* ---- NotamifyMCPClient.get_notams ----
    locations,        \* the locations argument (a list of strings)
    source,           \* how the remote source behaves during this call
    pc,               \* position of get_notams
    query_locations,  \* query_params.locations after validation
    all_notams,       \* all_notams
    page,             \* page
    total_count,      \* total_count
    data,             \* data, the last decoded response
    requests,         \* the page numbers of the GET requests issued so far
    responses,        \* every decoded response so far, in order of arrival
    result,           \* the value returned by get_notams
    \* ---- get_affected_elements, from line 299 on ----
    notams,           \* notams, the list taken from the aggregate
    req_locations,    \* the locations argument (a comma-separated string)
    starts_at,        \* starts_at
    ends_at,          \* ends_at
    spc,              \* position of get_affected_elements
    idx,              \* how many NOTAMs the extraction loop has handled
    affected_summary, \* affected_summary
    output            \* the text returned, as a list of lines

pagevars == <<locations, source, pc, query_locations, all_notams, page,
              total_count, data, requests, responses, result>>

sumvars == <<notams, req_locations, starts_at, ends_at, spc, idx,
             affected_summary, output>>

vars == <<pagevars, sumvars>>

\* Python's None, and a name not yet bound.
None == "None"

\* get_notams has returned nothing (every returned result has members).
NoResult == <<>>

----------------------------------------------------------------------------
(* Strings are sequences of one-character strings.                         *)

\* The characters in use, in increasing code point order.
CharOrder ==
    <<"/", "0", "1", "9",
      "A", "B", "C", "D", "E", "F", "G", "I", "J", "K", "L", "N", "P", "R", "S",
      "U", "V", "W", "X", "Y",
      "b", "e", "f", "g", "j", "k", "l", "x">>

LowerAlpha == {"b", "e", "f", "g", "j", "k", "l", "x"}
UpperAlpha ==
    {"A", "B", "C", "D", "E", "F", "G", "I", "J", "K", "L", "N", "P", "R", "S",
     "U", "V", "W", "X", "Y"}

\* (lower-case letter, its upper-case letter)
UpperPairs ==
    {<<"b", "B">>, <<"e", "E">>, <<"f", "F">>, <<"g", "G">>, <<"j", "J">>,
     <<"k", "K">>, <<"l", "L">>, <<"x", "X">>}

\* the rank of a character's code point among the characters in use
Ord(c) == CHOOSE i \in 1..Len(CharOrder) : CharOrder[i] = c

\* a < b on strings: by code point, a proper prefix first
StrLess(a, b) ==
    \E i \in 1..(Len(b)) :
        /\ \A j \in 1..(i - 1) : j <= Len(a) /\ a[j] = b[j]
        /\ i - 1 <= Len(a)
        /\ (i > Len(a) \/ Ord(a[i]) < Ord(b[i]))

\* str.upper() on one character
UpperChar(c) ==
    IF \E p \in UpperPairs : p[1] = c
    THEN (CHOOSE p \in UpperPairs : p[1] = c)[2]
    ELSE c

\* str.upper()
Upper(s) == [i \in 1..Len(s) |-> UpperChar(s[i])]

\* str.isalpha(): non-empty and every character a letter
IsAlpha(s) == Len(s) > 0 /\ \A i \in 1..Len(s) : s[i] \in LowerAlpha \cup UpperAlpha

----------------------------------------------------------------------------
(* NotamQueryParams                                                        *)

MinLocations == 1
MaxLocations == 5
IcaoLen == 4
PerPage == 30

\* Field(..., min_length=1, max_length=5)
LocationsLengthOk(v) == MinLocations <= Len(v) /\ Len(v) <= MaxLocations

\* mutant: the isalpha test left out
InvalidIcaoByLengthOnly(location) == location = <<>> \/ Len(location) # IcaoLen

\* the test of validate_icao_codes that raises ValueError
InvalidIcao(location) ==
    location = <<>> \/ Len(location) # IcaoLen \/ ~IsAlpha(location)

\* validate_icao_codes: TRUE when no entry raises
IcaoCodesOk(v) == \A i \in 1..Len(v) : ~InvalidIcao(v[i])

\* validate_icao_codes: the value returned
NormalisedLocations(v) == [i \in 1..Len(v) |-> Upper(v[i])]

\* NotamQueryParams(locations=...) constructs without a ValidationError
QueryParamsOk(v) == LocationsLengthOk(v) /\ IcaoCodesOk(v)

----------------------------------------------------------------------------
(* JSON objects are functions from keys to values.                         *)

\* dict.get(k, default)
Get(d, k, default) == IF k \in DOMAIN d THEN d[k] ELSE default

\* the concatenation of a list of lists (list.extend, "\n".join)
RECURSIVE Flatten(_)
Flatten(ss) == IF ss = <<>> THEN <<>> ELSE Head(ss) \o Flatten(Tail(ss))

\* An optional member: <<>> when the key is absent, <<v>> when it is v.
Member(k, opt) == IF opt = <<>> THEN <<>> ELSE (k :> opt[1])

----------------------------------------------------------------------------
(* The remote source                                                       *)

\* bounds of the source's behaviour
MaxTotal == 3
MaxPageLen == 2
MaxWellBehaved == 65
MaxLocs == 6

Items == {1, 2}

RECURSIVE SeqsUpTo(_, _)
SeqsUpTo(S, n) ==
    IF n = 0 THEN {<<>>}
    ELSE LET shorter == SeqsUpTo(S, n - 1)
         IN shorter \cup {Append(s, x) : s \in {t \in shorter : Len(t) = n - 1}, x \in S}

PageLists == SeqsUpTo(Items, MaxPageLen)

\* A 2xx response body of an unconstrained source, answering a request for page p.
ArbitraryResponses(p) ==
    { ("page" :> p) @@ ("per_page" :> PerPage)
        @@ Member("total_count", tc) @@ Member("notams", pn) @@ Member("request_id", x) :
        tc \in {<<>>} \cup {<<t>> : t \in 0..MaxTotal},
        pn \in {<<>>} \cup {<<l>> : l \in PageLists},
        x \in {<<>>, <<"r1">>} }

Min(a, b) == IF a < b THEN a ELSE b

Max(a, b) == IF a > b THEN a ELSE b

\* A well-behaved source holding items 1..T: every page full except the last.
WellBehavedResponse(T, p) ==
    LET first == (p - 1) * PerPage + 1
        last == Min(p * PerPage, T)
    IN ("page" :> p) @@ ("per_page" :> PerPage) @@ ("total_count" :> T)
         @@ ("notams" :> [i \in 1..(IF last >= first THEN last - first + 1 ELSE 0)
                            |-> first + i - 1])

SourceResponses(p) ==
    IF source.well_behaved THEN {WellBehavedResponse(source.T, p)}
    ELSE ArbitraryResponses(p)

----------------------------------------------------------------------------
(* NotamifyMCPClient.get_notams                                            *)

\* mutants of the break condition
ShouldBreakIgnoringEmptyPage(acc, tc, page_notams) == Len(acc) >= tc

ShouldBreakStrictly(acc, tc, page_notams) == Len(acc) > tc \/ page_notams = <<>>

ShouldBreakOnShortPage(acc, tc, page_notams) ==
    Len(acc) >= tc \/ Len(page_notams) < PerPage

\* line 164: the loop's break condition
ShouldBreak(acc, tc, page_notams) == Len(acc) >= tc \/ page_notams = <<>>

\* mutant: per_page left as the last response gave it
CombinedResultKeepingPerPage(last, acc, tc) ==
    [k \in DOMAIN last \cup {"notams", "total_count", "page"} |->
        CASE k = "notams" -> acc
          [] k = "total_count" -> tc
          [] k = "page" -> 1
          [] OTHER -> last[k]]

\* lines 170-174: the combined result
CombinedResult(last, acc, tc) ==
    [k \in DOMAIN last \cup {"notams", "total_count", "page", "per_page"} |->
        CASE k = "notams" -> acc
          [] k = "total_count" -> tc
          [] k = "page" -> 1
          [] k = "per_page" -> Len(acc)
          [] OTHER -> last[k]]

\* lines 111-141: validation, then the loop's variables
Validate ==
    /\ pc = "start"
    /\ IF QueryParamsOk(locations)
       THEN /\ query_locations' = NormalisedLocations(locations)
            /\ all_notams' = <<>>
            /\ page' = 1
            /\ pc' = "request"
       ELSE /\ pc' = "validation_error"
            /\ UNCHANGED <<query_locations, all_notams, page>>
    /\ UNCHANGED <<locations, source, total_count, data, requests, responses, result>>
    /\ UNCHANGED sumvars

\* lines 145-151: the GET for the current page
SendRequest ==
    /\ pc = "request"
    /\ requests' = Append(requests, page)
    /\ pc' = "await"
    /\ UNCHANGED <<locations, source, query_locations, all_notams, page,
                   total_count, data, responses, result>>
    /\ UNCHANGED sumvars

\* lines 152-176: a 2xx response is decoded, accumulated, and the loop goes on or returns
ReceiveOk ==
    /\ pc = "await"
    /\ \E resp \in SourceResponses(page) :
         LET tc == Get(resp, "total_count", 0)
             page_notams == Get(resp, "notams", <<>>)
             acc == all_notams \o page_notams
         IN /\ data' = resp
            /\ total_count' = tc
            /\ all_notams' = acc
            /\ responses' = Append(responses, resp)
            /\ IF ShouldBreak(acc, tc, page_notams)
               THEN /\ result' = CombinedResult(resp, acc, tc)
                    /\ pc' = "returned"
                    /\ page' = page
               ELSE /\ page' = page + 1
                    /\ pc' = "request"
                    /\ result' = result
    /\ UNCHANGED <<locations, source, query_locations, requests>>
    /\ UNCHANGED sumvars

\* mutant: the failure is reported together with what was collected so far
ReceiveErrorWithPartialResult ==
    /\ pc = "await"
    /\ pc' = "transport_error"
    /\ result' = [notams |-> all_notams]
    /\ UNCHANGED <<locations, source, query_locations, all_notams, page,
                   total_count, data, requests, responses>>
    /\ UNCHANGED sumvars

\* line 152: raise_for_status raises (or the GET itself raised); nothing catches it
ReceiveError ==
    /\ pc = "await"
    /\ pc' = "transport_error"
    /\ UNCHANGED <<locations, source, query_locations, all_notams, page,
                   total_count, data, requests, responses, result>>
    /\ UNCHANGED sumvars

Next == Validate \/ SendRequest \/ ReceiveOk \/ ReceiveError

\* a valid location list
Kjfk == <<"k", "j", "f", "k">>

Sources ==
    {[well_behaved |-> FALSE, T |-> 0]}
        \cup {[well_behaved |-> TRUE, T |-> t] : t \in 0..MaxWellBehaved}

InitCall ==
    /\ pc = "start"
    /\ query_locations = None
    /\ all_notams = None
    /\ page = None
    /\ total_count = None
    /\ data = None
    /\ requests = <<>>
    /\ responses = <<>>
    /\ result = NoResult

\* get_affected_elements is not running
SummaryIdle ==
    /\ notams = <<>>
    /\ req_locations = None
    /\ starts_at = None
    /\ ends_at = None
    /\ spc = "idle"
    /\ idx = 0
    /\ affected_summary = None
    /\ output = <<>>

\* one valid query against every behaviour of the source
Init ==
    /\ locations = <<Kjfk>>
    /\ source \in Sources
    /\ InitCall
    /\ SummaryIdle

Spec == Init /\ [][Next]_vars

\* every location list tried against a source that answers in one or two pages
SampleCodes ==
    {Kjfk, <<"E", "g", "L", "L">>, <<"k", "1", "f", "k">>, <<"k", "j", "f">>,
     <<"k", "j", "f", "k", "x">>, <<>>}

LocationLists == SeqsUpTo(SampleCodes, MaxLocs)

InitQuery ==
    /\ locations \in LocationLists
    /\ source \in {[well_behaved |-> TRUE, T |-> t] : t \in {0, PerPage + 1}}
    /\ InitCall
    /\ SummaryIdle

SpecQuery == InitQuery /\ [][Next]_vars

----------------------------------------------------------------------------
(* Properties of get_notams                                                *)

CeilDiv(a, b) == (a + b - 1) \div b

UpTo(n) == [i \in 1..n |-> i]

\* the item list of each response
PagesOf(rs) == [i \in 1..Len(rs) |-> Get(rs[i], "notams", <<>>)]

\* C1: after a 2xx response is appended, get_notams goes on to request page + 1
\* exactly when the accumulated count is below the total_count of that same
\* response and the page held at least one item; otherwise it returns without
\* another request; and going on means the next GET asks for that page.
C1_FurtherPageIff ==
    /\ [][(pc = "await" /\ pc' # "transport_error") =>
            LET reported == Get(data', "total_count", 0)
                page_items == Get(data', "notams", <<>>)
                further == pc' = "request" /\ page' = page + 1
            IN /\ all_notams' = all_notams \o page_items
               /\ further <=> (Len(all_notams') < reported /\ page_items # <<>>)
               /\ ~further => (pc' = "returned" /\ requests' = requests)]_vars
    /\ [][pc = "request" => (pc' = "await" /\ requests' = Append(requests, page))]_vars

C1_Witness ==
    /\ pc = "returned"
    /\ ~source.well_behaved
    /\ requests = <<1, 2>>
    /\ Len(all_notams) >= total_count
    /\ Get(data, "notams", <<>>) # <<>>

\* the fixed margin of the iteration cap of C2
Margin == 1

\* the largest total_count reported so far
RECURSIVE MaxReported(_)
MaxReported(rs) ==
    IF rs = <<>> THEN 0
    ELSE Max(Get(Head(rs), "total_count", 0), MaxReported(Tail(rs)))

\* C2: the number of page requests issued never exceeds
\* ceil(total_count / per_page) + Margin, total_count being the largest one
\* the source has reported during the call.
C2_RequestsWithinCap ==
    responses # <<>> =>
        Len(requests) <= CeilDiv(MaxReported(responses), PerPage) + Margin

\* C3: a transport failure ends the call with no result: the error state is
\* entered only from an outstanding request, without touching the request log
\* or the result, each page has been requested once (no retry), and nothing
\* happens afterwards.
C3_TransportFailureAborts ==
    /\ [](pc = "transport_error" =>
            /\ result = NoResult
            /\ requests = UpTo(page))
    /\ [][pc' = "transport_error" =>
            (pc = "await" /\ requests' = requests /\ result' = result)]_vars
    /\ [][pc # "transport_error"]_vars

C3_Witness ==
    /\ pc = "transport_error"
    /\ Len(requests) = 2
    /\ Len(all_notams) > 0
    /\ result = NoResult

\* C4 as claimed: a page shorter than per_page, with the accumulated count still
\* below total_count, ends the aggregation.
C4_ShortPageStops ==
    [][(pc = "await" /\ pc' # "transport_error"
          /\ Len(Get(data', "notams", <<>>)) < PerPage
          /\ Len(all_notams') < total_count')
        => pc' = "returned"]_vars

\* C4 as amended: with the accumulated count still below total_count, an empty
\* page ends the aggregation at once, returning fewer than total_count items
\* and no error, while a non-empty page, however short, is followed by a
\* request for the next page.
C4_EmptyPageStops ==
    [][(pc = "await" /\ pc' # "transport_error" /\ Len(all_notams') < total_count')
        => IF Get(data', "notams", <<>>) = <<>>
           THEN /\ pc' = "returned"
                /\ requests' = requests
                /\ result'["notams"] = all_notams'
                /\ Len(result'["notams"]) < result'["total_count"]
           ELSE pc' = "request" /\ page' = page + 1]_vars

C4_Witness ==
    /\ pc = "returned"
    /\ Len(requests) = 2
    /\ Get(data, "notams", <<>>) = <<>>
    /\ Len(result["notams"]) > 0
    /\ Len(result["notams"]) < result["total_count"]

\* C5: against a well-behaved source holding T items, a call that returns has
\* requested exactly pages 1..max(1, ceil(T / per_page)), in that order, and
\* returns the T items; until then the pages requested are 1, 2, ... in order.
C5_WellBehavedExact ==
    source.well_behaved =>
        /\ requests = UpTo(Len(requests))
        /\ pc = "returned" =>
            /\ requests = UpTo(Max(1, CeilDiv(source.T, PerPage)))
            /\ result["notams"] = UpTo(source.T)

C5_Witness ==
    /\ source.well_behaved
    /\ source.T = 45
    /\ pc = "returned"
    /\ requests = <<1, 2>>
    /\ Len(result["notams"]) = 45

Letters == LowerAlpha \cup UpperAlpha

\* C6: once validation has run, the call failed with a validation error exactly
\* when the list does not have 1 to 5 entries of 4 letters each; a failed call
\* has issued no request; an accepted list is kept upper-cased; and no request
\* is issued before validation.
C6_ValidationBeforeIO ==
    LET acceptable ==
            /\ Len(locations) \in 1..5
            /\ \A i \in 1..Len(locations) :
                 /\ Len(locations[i]) = 4
                 /\ \A j \in 1..4 : locations[i][j] \in Letters
    IN /\ pc = "start" => requests = <<>>
       /\ pc # "start" =>
            /\ (pc = "validation_error") <=> ~acceptable
            /\ pc = "validation_error" => (requests = <<>> /\ result = NoResult)
            /\ pc # "validation_error" =>
                 /\ Len(query_locations) = Len(locations)
                 /\ \A i \in 1..Len(locations) :
                      /\ Len(query_locations[i]) = 4
                      /\ \A j \in 1..4 :
                           /\ query_locations[i][j] \in UpperAlpha
                           /\ <<locations[i][j], query_locations[i][j]>>
                                \in UpperPairs \cup {<<c, c>> : c \in UpperAlpha}

C6_Witness ==
    /\ pc = "validation_error"
    /\ Len(locations) \in 1..5
    /\ requests = <<>>

\* C7: a returned result holds the concatenation of all fetched pages in fetch
\* order as notams, page 1, per_page the number of items in notams, the
\* total_count of the last response (0 when it reported none), and every other
\* member of the last response unchanged.
C7_CombinedResult ==
    pc = "returned" =>
        /\ Len(responses) = Len(requests)
        /\ data = responses[Len(responses)]
        /\ DOMAIN result = DOMAIN data \cup {"notams", "total_count", "page", "per_page"}
        /\ result["notams"] = Flatten(PagesOf(responses))
        /\ result["page"] = 1
        /\ result["per_page"] = Len(result["notams"])
        /\ result["total_count"] = Get(data, "total_count", 0)
        /\ \A k \in DOMAIN data \ {"notams", "total_count", "page", "per_page"} :
             result[k] = data[k]

C7_Witness ==
    /\ pc = "returned"
    /\ Len(responses) = 2
    /\ "request_id" \in DOMAIN data
    /\ data["page"] = 2
    /\ result["per_page"] # data["per_page"]
    /\ Len(result["notams"]) > Len(Get(data, "notams", <<>>))

----------------------------------------------------------------------------
(* get_affected_elements, from the aggregate's notams on (lines 299-446)   *)
(*                                                                         *)
(* Element types, effects, airport codes and details are atomic strings;   *)
(* identifiers and categories, which the code compares and upper-cases,    *)
(* are strings of characters.  A member that may be JSON null holds <<>>   *)
(* for null and <<v>> for the value v.                                     *)

\* bound on the number of NOTAMs of the aggregate
MaxNotams == 3

NA == <<"N", "/", "A">>
Unspecified == <<"U", "N", "S", "P", "E", "C", "I", "F", "I", "E", "D">>

Id09L == <<"0", "9", "L">>
Id09R == <<"0", "9", "R">>
IdB == <<"B">>
Idb == <<"b">>
CatAD == <<"A", "D">>
CatNAV == <<"N", "A", "V">>
CatRWY == <<"R", "W", "Y">>

\* raw element records
ElTaxiwayB == [type |-> "TAXIWAY", effect |-> "AFFECTED", identifier |-> IdB]
ElRunway09L == [type |-> "RUNWAY", effect |-> "CLOSED", identifier |-> Id09L]
ElRunway09R == [type |-> "RUNWAY", effect |-> "CAUTION", identifier |-> Id09R]
ElTaxiwayLowerB ==
    [type |-> "TAXIWAY", effect |-> "AFFECTED", identifier |-> Idb, details |-> "WIP"]
ElHelipad == [type |-> "HELIPAD", identifier |-> Id09L, details |-> ""]
ElUntyped == [identifier |-> IdB]
ElOddEffect == [type |-> "RUNWAY", effect |-> "WEIRD", identifier |-> Id09L]
ElOther == [type |-> "OTHER", effect |-> "HAZARD"]

\* NOTAM records of the aggregate
NotamA1 ==
    [icao_code |-> "KJFK", id |-> "A1",
     interpretation |-> <<[category |-> CatRWY,
                           affected_elements |-> <<<<ElTaxiwayB, ElRunway09L>>>>]>>]
NotamA2 ==
    [icao_code |-> "KJFK", id |-> "A2",
     interpretation |-> <<[affected_elements |-> <<<<ElRunway09R>>>>]>>]
NotamA3 ==
    [icao_code |-> "KJFK", id |-> "A3",
     interpretation |-> <<[category |-> CatAD,
                           affected_elements |-> <<<<ElTaxiwayLowerB, ElUntyped, ElHelipad>>>>]>>]
NotamB1 ==
    [icao_code |-> "EGLL", id |-> "B1",
     interpretation |-> <<[category |-> CatNAV,
                           affected_elements |-> <<<<ElOther, ElOddEffect, ElHelipad>>>>]>>]
\* affected_elements is null
NotamB2 ==
    [icao_code |-> "EGLL", id |-> "B2",
     interpretation |-> <<[category |-> CatAD, affected_elements |-> <<>>]>>]
\* no interpretation
NotamB3 == [icao_code |-> "EGLL", id |-> "B3"]
\* no airport code, and an interpretation that is the empty object
NotamU1 == [id |-> "U1", interpretation |-> << <<>> >>]
\* interpretation is null
NotamA4 == [icao_code |-> "KJFK", interpretation |-> <<>>]

NotamSamples ==
    {NotamA1, NotamA2, NotamA3, NotamB1, NotamB2, NotamB3, NotamU1, NotamA4}

\* ---- dicts that keep insertion order: [keys |-> <<k1, ...>>, val |-> [k |-> v]] ----

EmptyDict == [keys |-> <<>>, val |-> <<>>]

InDict(d, k) == \E i \in 1..Len(d.keys) : d.keys[i] = k

\* d[k] = v
DictSet(d, k, v) ==
    [keys |-> IF InDict(d, k) THEN d.keys ELSE Append(d.keys, k),
     val |-> [x \in (DOMAIN d.val) \cup {k} |-> IF x = k THEN v ELSE d.val[x]]]

\* ---- sort_elements (lines 321-344) ----

\* type_priority, lines 323-326
TypePriority ==
    ("RUNWAY" :> 1) @@ ("TAXIWAY" :> 2) @@ ("LIGHTING" :> 3) @@ ("SERVICE" :> 4)
      @@ ("PROCEDURE" :> 5) @@ ("APRON" :> 6) @@ ("APPROACH" :> 7) @@ ("NAVAID" :> 8)
      @@ ("AIRSPACE" :> 9) @@ ("OTHER" :> 10)

\* effect_priority, lines 327-330
EffectPriority ==
    ("CLOSED" :> 1) @@ ("RESTRICTED" :> 2) @@ ("HAZARD" :> 3) @@ ("UNSERVICEABLE" :> 4)
      @@ ("WORK_IN_PROGRESS" :> 5) @@ ("CAUTION" :> 6) @@ ("AFFECTED" :> 7)

\* the rank of a value no table holds
UnknownPriority == 99

\* mutant: the identifier compared as written
SortKeyCaseSensitive(element) ==
    <<Get(TypePriority, Get(element, "type", "OTHER"), UnknownPriority),
      Get(EffectPriority, Get(element, "effect", "AFFECTED"), UnknownPriority),
      Get(element, "identifier", <<>>)>>

\* sort_key, lines 332-341
SortKey(element) ==
    <<Get(TypePriority, Get(element, "type", "OTHER"), UnknownPriority),
      Get(EffectPriority, Get(element, "effect", "AFFECTED"), UnknownPriority),
      Upper(Get(element, "identifier", <<>>))>>

\* k1 < k2 on (int, int, str) tuples
KeyLess(k1, k2) ==
    \/ k1[1] < k2[1]
    \/ k1[1] = k2[1] /\ k1[2] < k2[2]
    \/ k1[1] = k2[1] /\ k1[2] = k2[2] /\ StrLess(k1[3], k2[3])

\* sorted(elements, key=sort_key): a stable sort, as the order in which the
\* first n elements come out; each element goes behind every element that
\* does not compare greater.
RECURSIVE SortedOrder(_, _)
SortedOrder(elements, n) ==
    IF n = 0 THEN <<>>
    ELSE LET before == SortedOrder(elements, n - 1)
             k == Cardinality({j \in 1..Len(before) :
                     ~KeyLess(SortKey(elements[n]), SortKey(elements[before[j]]))})
         IN SubSeq(before, 1, k) \o <<n>> \o SubSeq(before, k + 1, Len(before))

\* AffectedElement(**elem)
AffectedElement(elem) ==
    [type |-> Get(elem, "type", "UNKNOWN"),
     identifier |-> Get(elem, "identifier", NA),
     effect |-> Get(elem, "effect", "N/A"),
     details |-> Get(elem, "details", None)]

\* sort_elements
sort_elements(elements) ==
    LET order == SortedOrder(elements, Len(elements))
    IN [i \in 1..Len(elements) |-> AffectedElement(elements[order[i]])]

\* ---- the extraction loop (lines 346-382) ----

\* Python truth of a member that may be absent, null or an object
Truthy(opt) == opt # <<>> /\ DOMAIN opt[1] # {}

\* lines 376-381
ElementInfo(element) ==
    [type |-> Get(element, "type", "UNKNOWN"),
     identifier |-> Get(element, "identifier", NA),
     effect |-> Get(element, "effect", "N/A"),
     details |-> Get(element, "details", None)]

\* lines 352-357 (map_elements is never read)
NewAirport == [notam_count |-> 0, affected_elements |-> <<>>, categories |-> {}]

\* interpretation.get('affected_elements') or []
AffectedElementsOf(interpretation) ==
    LET opt == Get(interpretation, "affected_elements", <<>>)
    IN IF opt = <<>> THEN <<>> ELSE opt[1]

\* one iteration of the loop of line 346, on affected_summary
Extracted(summary, notam) ==
    LET icao_code == Get(notam, "icao_code", "UNKNOWN")
        airports0 == IF InDict(summary.airports, icao_code) THEN summary.airports
                     ELSE DictSet(summary.airports, icao_code, NewAirport)
        counted == [airports0.val[icao_code] EXCEPT !.notam_count = @ + 1]
        interpretation == Get(notam, "interpretation", << <<>> >>)
    IN IF ~Truthy(interpretation)
       THEN [summary EXCEPT !.airports = DictSet(airports0, icao_code, counted)]
       ELSE LET category == Get(interpretation[1], "category", Unspecified)
                raw == AffectedElementsOf(interpretation[1])
                airport == [counted EXCEPT
                              !.categories = @ \cup {category},
                              !.affected_elements =
                                  @ \o [i \in 1..Len(raw) |-> ElementInfo(raw[i])]]
                tally == summary.elements_by_category
            IN [summary EXCEPT
                  !.airports = DictSet(airports0, icao_code, airport),
                  !.elements_by_category =
                      [c \in (DOMAIN tally) \cup {category} |->
                          IF c = category THEN Get(tally, c, 0) + 1 ELSE tally[c]]]

\* ---- formatting (lines 312-319, 391-446) ----

\* format_element: its lines
format_element(element) ==
    <<<<"identifier", element.identifier>>>>
      \o (IF element.effect # "N/A" THEN <<<<"effect", element.effect>>>> ELSE <<>>)
      \o (IF element.details \notin {None, ""}
          THEN <<<<"details", element.details>>>> ELSE <<>>)

\* sorted() of a set of strings
RECURSIVE SortedStrings(_)
SortedStrings(S) ==
    IF S = {} THEN <<>>
    ELSE LET least == CHOOSE x \in S : \A y \in S : ~StrLess(y, x)
         IN <<least>> \o SortedStrings(S \ {least})

\* line 428
type_order ==
    <<"RUNWAY", "TAXIWAY", "LIGHTING", "SERVICE", "PROCEDURE",
      "APRON", "APPROACH", "NAVAID", "AIRSPACE", "OTHER">>

InTypeOrder(t) == \E i \in 1..Len(type_order) : type_order[i] = t

\* lines 419-425: elements_by_type after the first n elements
RECURSIVE ElementsByType(_, _)
ElementsByType(elements, n) ==
    IF n = 0 THEN EmptyDict
    ELSE LET d == ElementsByType(elements, n - 1)
             t == elements[n].type
         IN DictSet(d, t, Append(IF InDict(d, t) THEN d.val[t] ELSE <<>>, elements[n]))

\* lines 433-435 and 440-442: one type's heading and elements
TypeGroupLines(t, elements) ==
    <<<<"type", t>>>> \o Flatten([i \in 1..Len(elements) |-> format_element(elements[i])])

\* mutant: the types outside type_order are not shown
GroupLinesOfListedTypes(by_type) ==
    Flatten([i \in 1..Len(type_order) |->
               IF InDict(by_type, type_order[i])
               THEN TypeGroupLines(type_order[i], by_type.val[type_order[i]])
               ELSE <<>>])

\* lines 431-442: the groups of an airport
GroupLines(by_type) ==
    Flatten([i \in 1..Len(type_order) |->
               IF InDict(by_type, type_order[i])
               THEN TypeGroupLines(type_order[i], by_type.val[type_order[i]])
               ELSE <<>>])
      \o Flatten([i \in 1..Len(by_type.keys) |->
                    IF ~InTypeOrder(by_type.keys[i])
                    THEN TypeGroupLines(by_type.keys[i], by_type.val[by_type.keys[i]])
                    ELSE <<>>])

\* lines 410-444: one airport's block
AirportLines(icao_code, airport_data) ==
    << <<"airport", icao_code>>,
       <<"notams", airport_data.notam_count>>,
       <<"categories", SortedStrings(airport_data.categories)>> >>
      \o (IF airport_data.affected_elements # <<>>
          THEN <<<<"elements_heading">>>>
                 \o GroupLines(ElementsByType(airport_data.affected_elements,
                                              Len(airport_data.affected_elements)))
          ELSE <<>>)
      \o <<<<"blank">>>>

\* lines 392-446: output_lines
OutputLines(summary) ==
    LET tally == summary.elements_by_category
        cats == SortedStrings(DOMAIN tally)
        airports == summary.airports
    IN << <<"title">>, <<"disclaimer">>, <<"rule">>,
          <<"time_period", summary.time_period>>,
          <<"total_notams", summary.total_notams>>,
          <<"airport_codes", airports.keys>>,
          <<"blank">> >>
         \o (IF DOMAIN tally # {}
             THEN <<<<"categories_heading">>>>
                    \o [i \in 1..Len(cats) |-> <<"category", cats[i], tally[cats[i]]>>]
                    \o <<<<"blank">>>>
             ELSE <<>>)
         \o Flatten([i \in 1..Len(airports.keys) |->
                       AirportLines(airports.keys[i], airports.val[airports.keys[i]])])

\* mutant: the sentence without the locations
NoNotamsLinesWithoutLocations(locs) ==
    <<<<"No active NOTAMs found", " in the specified time period.">>>>

\* line 301: the text returned when nothing was found, one line made of the
\* f-string's literal parts and the value it interpolates
NoNotamsLines(locs) ==
    <<<<"No active NOTAMs found for ", locs, " in the specified time period.">>>>

\* lines 299-310: nothing found, or affected_summary set up
Begin ==
    /\ spc = "begin"
    /\ IF notams = <<>>
       THEN /\ output' = NoNotamsLines(req_locations)
            /\ spc' = "returned"
            /\ UNCHANGED affected_summary
       ELSE /\ affected_summary' =
                  [airports |-> EmptyDict,
                   total_notams |-> Len(notams),
                   elements_by_category |-> <<>>,
                   time_period |-> <<starts_at, "to", ends_at>>]
            /\ spc' = "extract"
            /\ UNCHANGED output
    /\ UNCHANGED <<notams, req_locations, starts_at, ends_at, idx>>
    /\ UNCHANGED pagevars

\* lines 346-382: the loop body for the next NOTAM
ExtractNotam ==
    /\ spc = "extract"
    /\ idx < Len(notams)
    /\ affected_summary' = Extracted(affected_summary, notams[idx + 1])
    /\ idx' = idx + 1
    /\ UNCHANGED <<notams, req_locations, starts_at, ends_at, spc, output>>
    /\ UNCHANGED pagevars

\* lines 386-389: every airport's elements sorted
SortAirports ==
    /\ spc = "extract"
    /\ idx = Len(notams)
    /\ affected_summary' =
         [affected_summary EXCEPT !.airports.val =
            [c \in DOMAIN @ |->
               [@[c] EXCEPT !.affected_elements = sort_elements(@)]]]
    /\ spc' = "format"
    /\ UNCHANGED <<notams, req_locations, starts_at, ends_at, idx, output>>
    /\ UNCHANGED pagevars

\* lines 391-446: the text
FormatOutput ==
    /\ spc = "format"
    /\ output' = OutputLines(affected_summary)
    /\ spc' = "returned"
    /\ UNCHANGED <<notams, req_locations, starts_at, ends_at, idx, affected_summary>>
    /\ UNCHANGED pagevars

NextSummary == Begin \/ ExtractNotam \/ SortAirports \/ FormatOutput

\* get_notams has returned; its state plays no part from here on
CallOver ==
    /\ locations = <<>>
    /\ source = [well_behaved |-> FALSE, T |-> 0]
    /\ pc = "over"
    /\ query_locations = None
    /\ all_notams = None
    /\ page = None
    /\ total_count = None
    /\ data = None
    /\ requests = <<>>
    /\ responses = <<>>
    /\ result = NoResult

InitSummary ==
    /\ notams \in SeqsUpTo(NotamSamples, MaxNotams)
    /\ req_locations \in {"KJFK", "KJFK,EGLL"}
    /\ starts_at = "2024-01-01T00:00:00Z"
    /\ ends_at \in {"2024-01-02T00:00:00Z", "2024-01-03T00:00:00Z"}
    /\ spc = "begin"
    /\ idx = 0
    /\ affected_summary = None
    /\ output = <<>>
    /\ CallOver

SpecSummary == InitSummary /\ [][NextSummary]_vars

----------------------------------------------------------------------------
(* Properties of get_affected_elements                                     *)

\* the position of x in the list s, Len(s) + 1 when it is not there
IndexIn(s, x) ==
    IF \E i \in 1..Len(s) : s[i] = x
    THEN CHOOSE i \in 1..Len(s) : s[i] = x /\ \A j \in 1..(i - 1) : s[j] # x
    ELSE Len(s) + 1

\* the tables of the specification: rank = position, 99 for any other value
TypeRanking ==
    <<"RUNWAY", "TAXIWAY", "LIGHTING", "SERVICE", "PROCEDURE", "APRON", "APPROACH",
      "NAVAID", "AIRSPACE", "OTHER">>

EffectRanking ==
    <<"CLOSED", "RESTRICTED", "HAZARD", "UNSERVICEABLE", "WORK_IN_PROGRESS", "CAUTION",
      "AFFECTED">>

RankIn(table, x) == IF IndexIn(table, x) <= Len(table) THEN IndexIn(table, x) ELSE 99

CompositeKey(e) ==
    <<RankIn(TypeRanking, e.type), RankIn(EffectRanking, e.effect), Upper(e.identifier)>>

\* after is before, stably sorted by the composite key
IsStableSortOf(after, before) ==
    /\ Len(after) = Len(before)
    /\ \A i \in 1..(Len(after) - 1) :
         ~KeyLess(CompositeKey(after[i + 1]), CompositeKey(after[i]))
    /\ \A k \in {CompositeKey(before[i]) : i \in 1..Len(before)}
               \cup {CompositeKey(after[i]) : i \in 1..Len(after)} :
         SelectSeq(after, LAMBDA e : CompositeKey(e) = k)
           = SelectSeq(before, LAMBDA e : CompositeKey(e) = k)

IdentifiersOf(elements) == [i \in 1..Len(elements) |-> elements[i].identifier]

\* C8: the sorting step replaces every airport's element list by a permutation
\* of it that is non-decreasing in (type rank, effect rank, upper-cased
\* identifier) and keeps elements of equal key in their original order; the
\* list TAXIWAY/AFFECTED B, RUNWAY/CLOSED 09L, RUNWAY/CAUTION 09R comes out as
\* 09L, 09R, B.
C8_StableSort ==
    [][(spc = "extract" /\ spc' = "format") =>
         /\ affected_summary'.airports.keys = affected_summary.airports.keys
         /\ \A c \in DOMAIN affected_summary.airports.val :
              LET before == affected_summary.airports.val[c].affected_elements
                  after == affected_summary'.airports.val[c].affected_elements
              IN /\ IsStableSortOf(after, before)
                 /\ before = <<ElementInfo(ElTaxiwayB), ElementInfo(ElRunway09L),
                               ElementInfo(ElRunway09R)>>
                      => IdentifiersOf(after) = <<Id09L, Id09R, IdB>>]_vars

C8_Witness ==
    /\ spc = "format"
    /\ notams = <<NotamA1, NotamA2>>
    /\ affected_summary.airports.val["KJFK"].affected_elements
         = <<ElementInfo(ElRunway09L), ElementInfo(ElRunway09R), ElementInfo(ElTaxiwayB)>>

CanonicalTypes ==
    <<"RUNWAY", "TAXIWAY", "LIGHTING", "SERVICE", "PROCEDURE", "APRON", "APPROACH",
      "NAVAID", "AIRSPACE", "OTHER">>

IsCanonical(t) == IndexIn(CanonicalTypes, t) <= Len(CanonicalTypes)

TypesOf(elements) == [i \in 1..Len(elements) |-> elements[i].type]

\* the types of a set, by where each first occurs in the list types
RECURSIVE ByFirstOccurrence(_, _)
ByFirstOccurrence(S, types) ==
    IF S = {} THEN <<>>
    ELSE LET first == CHOOSE t \in S : \A u \in S : IndexIn(types, t) <= IndexIn(types, u)
         IN <<first>> \o ByFirstOccurrence(S \ {first}, types)

\* the headings an airport's block must show, in order
ExpectedHeadings(elements) ==
    LET present == {elements[i].type : i \in 1..Len(elements)}
    IN SelectSeq(CanonicalTypes, LAMBDA t : t \in present)
         \o ByFirstOccurrence({t \in present : ~IsCanonical(t)}, TypesOf(elements))

\* the lines of an airport's block from its first group on
ExpectedGroups(elements) ==
    LET heads == ExpectedHeadings(elements)
    IN Flatten([i \in 1..Len(heads) |->
                  <<<<"type", heads[i]>>>>
                    \o Flatten([j \in 1..Len(elements) |->
                                  IF elements[j].type = heads[i]
                                  THEN format_element(elements[j]) ELSE <<>>])])

\* the lines of airport c's block between its three leading lines and its blank line
BlockBody(c) ==
    LET a == IndexIn(output, <<"airport", c>>)
        b == CHOOSE i \in (a + 1)..Len(output) :
                 /\ output[i] = <<"blank">>
                 /\ \A j \in (a + 1)..(i - 1) : output[j] # <<"blank">>
    IN SubSeq(output, a + 3, b - 1)

CountLines(lines, kind) == Cardinality({i \in 1..Len(lines) : lines[i][1] = kind})

\* C9: in the returned summary every airport has one block; a block shows one
\* identifier line per extracted element; its groups are the canonical types
\* present, in canonical order, then the other types in the order of their
\* first element in the sorted list; and each group lists its type's elements
\* in sorted order.
C9_GroupedByType ==
    (spc = "returned" /\ notams # <<>>) =>
        \A c \in DOMAIN affected_summary.airports.val :
            LET elements == affected_summary.airports.val[c].affected_elements
            IN /\ CountLines(output, "airport") = Len(affected_summary.airports.keys)
               /\ IndexIn(output, <<"airport", c>>) <= Len(output)
               /\ CountLines(BlockBody(c), "identifier") = Len(elements)
               /\ BlockBody(c) = IF elements = <<>> THEN <<>>
                                 ELSE <<<<"elements_heading">>>> \o ExpectedGroups(elements)

C9_Witness ==
    /\ spc = "returned"
    /\ notams = <<NotamA3, NotamA1>>
    /\ SelectSeq(BlockBody("KJFK"), LAMBDA l : l[1] = "type")
         = <<<<"type", "RUNWAY">>, <<"type", "TAXIWAY">>, <<"type", "HELIPAD">>,
             <<"type", "UNKNOWN">>>>

\* C10: each pass of the extraction loop adds one to the NOTAM count of the
\* NOTAM's airport; when the NOTAM has an interpretation object, its category
\* (UNSPECIFIED when it has none) is in the airport's category set afterwards
\* and that category's tally has grown by one; when it has none, the airport's
\* elements, the category sets and the tally are as before.
C10_CategoriesRecorded ==
    [][(spc = "extract" /\ idx' = idx + 1) =>
         LET notam == notams[idx + 1]
             c == Get(notam, "icao_code", "UNKNOWN")
             present == "interpretation" \in DOMAIN notam /\ notam["interpretation"] # <<>>
             old == Get(affected_summary.airports.val, c, NewAirport)
             new == affected_summary'.airports.val[c]
             tally == affected_summary.elements_by_category
             tally_after == affected_summary'.elements_by_category
         IN /\ new.notam_count = old.notam_count + 1
            /\ present =>
                 LET category == Get(notam["interpretation"][1], "category", Unspecified)
                 IN /\ category \in new.categories
                    /\ Get(tally_after, category, 0) = Get(tally, category, 0) + 1
            /\ ~present =>
                 /\ new.affected_elements = old.affected_elements
                 /\ new.categories = old.categories
                 /\ tally_after = tally]_vars

\* the line has value v among its parts
Names(line, v) == \E i \in 1..Len(line) : line[i] = v

\* C11 as claimed: with no NOTAM in the aggregate the call returns, without
\* error, one sentence and nothing else, and the sentence names the requested
\* locations and the starts_at and ends_at of the period queried.
C11_SentenceNamesLocationsAndPeriod ==
    (spc = "returned" /\ notams = <<>>) =>
        /\ Len(output) = 1
        /\ Names(output[1], req_locations)
        /\ Names(output[1], starts_at)
        /\ Names(output[1], ends_at)

\* C11 as amended: with no NOTAM in the aggregate the call returns, without
\* error and without building a summary, exactly the one sentence "No active
\* NOTAMs found for <locations> in the specified time period.", which names
\* the requested locations as given and neither starts_at nor ends_at; and
\* that sentence is returned in no other case.
C11_SentenceNamesLocationsOnly ==
    /\ (spc = "begin" /\ notams = <<>>) => output = <<>>
    /\ (spc # "begin" /\ notams = <<>>) =>
         /\ spc = "returned"
         /\ affected_summary = None
         /\ output = <<<<"No active NOTAMs found for ", req_locations,
                         " in the specified time period.">>>>
         /\ ~Names(output[1], starts_at)
         /\ ~Names(output[1], ends_at)
    /\ (spc = "returned" /\ notams # <<>>) => output[1] = <<"title">>

C11_Witness ==
    /\ spc = "returned"
    /\ notams = <<>>
    /\ req_locations = "KJFK"
    /\ starts_at = "2024-01-01T00:00:00Z"
    /\ ends_at = "2024-01-02T00:00:00Z"
    /\ Len(output) = 1
    /\ Names(output[1], "KJFK")

====
